---- MODULE Spec2Model ----
(***************************************************************************)
(* Model of the data-access layer of the Club World Cup dashboard          *)
(* (src/db.py, src/utils.py) and of the match selector of its first tab    *)
(* (src/ui.py, src/dashboard.py).  Every query function is a Streamlit     *)
(* cache_data wrapper around one PostgreSQL statement.  The tables are the *)
(* state the statements read; the statements are modelled relationally     *)
(* (WHERE, JOIN, GROUP BY, aggregates with SQL NULL, HAVING, ORDER BY,     *)
(* LIMIT), the wrapper as a read-through cache keyed by function and       *)
(* arguments with a time-to-live.                                          *)
(*                                                                         *)
(* Numbers.  Counters are naturals.  A value rounded to two decimals       *)
(* (save_pct, aggression_score_per_match) is kept in hundredths.  An       *)
(* unrounded numeric quotient (defensive_score, attacking_score_per_match) *)
(* is kept as an exact fraction [num, den]; PostgreSQL's numeric division  *)
(* carries at least 16 significant digits, which separates any two         *)
(* different fractions the bounded data can produce.                       *)
(***************************************************************************)
EXTENDS Integers, Sequences, FiniteSets, TLC

VARIABLES
    matches,        \* table matches: set of rows
    team_stats,     \* table team_stats: set of rows, one per (team_id, match_id)
    player_stats,   \* table player_stats: set of rows, one per (player_id, match_id)
    cache,          \* st.cache_data store: <<function, args>> -> [value, at]
    now,            \* wall clock, seconds
    result,         \* what the last call returned or raised
    database,       \* the data source: "up", "down" (refuses connections) or
                    \* "failing" (accepts connections, statements raise)
    connections,    \* number of connections opened by db_connection() and not closed
    running,        \* the invocation each concurrent caller is in, and how far it is
    last_update     \* history: when the tables last changed

vars == <<matches, team_stats, player_stats, cache, now, result, database, connections,
          running, last_update>>

(***************************************************************************)
(* Bounds of the model.                                                    *)
(***************************************************************************)
MaxLimit == 2
MaxPlayerRows == 3
MaxTicks == 2
MaxConnections == 2

MatchIds == {1, 2}
PlayerIds == {1, 2, 3}
TeamIds == {1, 2, 3}

(***************************************************************************)
(* SQL NULL.  A JSON key that is absent (stats->>'saves') reads as NULL;   *)
(* every stored number is >= 0, so -1 is free to stand for it.             *)
(***************************************************************************)
NULL == -1

IsNull(x) == x = NULL

\* a + b in SQL: NULL when either operand is NULL
SqlAdd(a, b) == IF IsNull(a) \/ IsNull(b) THEN NULL ELSE a + b

RECURSIVE SumOver(_, _)
SumOver(S, f) ==
    IF S = {} THEN 0
    ELSE LET r == CHOOSE x \in S : TRUE IN f[r] + SumOver(S \ {r}, f)

\* SUM(expr) over the rows S of a group, f[r] the value of expr in row r:
\* NULL inputs are skipped, and the sum of no non-NULL input is NULL
SqlSum(S, f) ==
    LET nn == {r \in S : ~IsNull(f[r])}
    IN IF nn = {} THEN NULL ELSE SumOver(nn, f)

\* NULLIF(a, 0)
NullIfZero(a) == IF ~IsNull(a) /\ a = 0 THEN NULL ELSE a

\* x > 0 as a WHERE/HAVING condition: NULL > 0 is unknown, which filters the row out
SqlPositive(x) == ~IsNull(x) /\ x > 0

\* ROUND((a / b)::numeric, 2) in hundredths, for a >= 0 and b > 0 (half away
\* from zero); NULL when an operand is NULL
RoundDiv2(a, b) ==
    IF IsNull(a) \/ IsNull(b) THEN NULL
    ELSE (200 * a + b) \div (2 * b)

\* x sorts strictly before y under ORDER BY ... DESC (PostgreSQL: NULLS FIRST)
DescBefore(x, y) ==
    IF IsNull(x) THEN ~IsNull(y)
    ELSE ~IsNull(y) /\ x > y

\* ORDER BY: every arrangement of the rows S in which no row sorts strictly
\* before one placed ahead of it.  Rows whose sort keys are all equal may come
\* out in any relative order: the statement gives none.
\* before[<<a, b>>]: row a sorts strictly before row b.
SortedOrders(S, before) ==
    LET n == Cardinality(S)
    IN {s \in [1..n -> S] :
          /\ \A i, j \in 1..n : i # j => s[i] # s[j]
          /\ \A i, j \in 1..n : i < j => ~before[<<s[j], s[i]>>]}

Min(a, b) == IF a < b THEN a ELSE b

\* LIMIT n, n >= 0
Limit(s, n) == SubSeq(s, 1, Min(n, Len(s)))

\* The outcomes of "<ordered rows> LIMIT limit": PostgreSQL rejects a negative
\* LIMIT ("LIMIT must not be negative") and pd.read_sql raises
Ranked(orders, limit) ==
    IF limit < 0
    THEN {[status |-> "error", rows |-> <<>>]}
    ELSE {[status |-> "ok", rows |-> Limit(s, limit)] : s \in orders}

(***************************************************************************)
(* Reference tables players and teams: every player belongs to one team.   *)
(***************************************************************************)
players == [p \in PlayerIds |-> ((p - 1) % Cardinality(TeamIds)) + 1]
teams == TeamIds

\* teams.team_name, in alphabetical order of the ids
team_name == <<"Al Ahly", "Inter Miami", "Palmeiras">>

\* FROM player_stats ps JOIN players p ON ... JOIN teams t ON ...
PlayerJoin == {ps \in player_stats :
                 ps.player_id \in DOMAIN players /\ players[ps.player_id] \in teams}

(***************************************************************************)
(* get_top_players_all_matches                                             *)
(***************************************************************************)
\* a plausible slip: ORDER BY goals instead of "G/A"
GABefore_goals_only(a, b) == DescBefore(a.goals, b.goals)

\* ORDER BY "G/A" DESC
GABefore(a, b) == DescBefore(a.GA, b.GA)

top_players_all_rows ==
    LET src == PlayerJoin
        Row(p) ==
            LET g == {ps \in src : ps.player_id = p}
            IN [name |-> p,
                team_name |-> players[p],
                goals |-> SqlSum(g, [r \in g |-> r.goals]),
                assists |-> SqlSum(g, [r \in g |-> r.assists]),
                GA |-> SqlSum(g, [r \in g |-> SqlAdd(r.goals, r.assists)])]
    IN {Row(p) : p \in {ps.player_id : ps \in src}}

sql_top_players_all_matches(limit) ==
    LET rows == top_players_all_rows
    IN Ranked(SortedOrders(rows, [p \in rows \X rows |-> GABefore(p[1], p[2])]), limit)

(***************************************************************************)
(* get_top_players_by_match                                                *)
(***************************************************************************)
\* a plausible slip: the WHERE clause left out
top_players_by_match_rows_of_all_matches(match_id) ==
    {[name |-> ps.player_id,
      team_name |-> players[ps.player_id],
      goals |-> ps.goals,
      assists |-> ps.assists,
      GA |-> SqlAdd(ps.goals, ps.assists)]
     : ps \in PlayerJoin}

\* WHERE ps.match_id = %s: one output row per player_stats row of the match
top_players_by_match_rows(match_id) ==
    {[name |-> ps.player_id,
      team_name |-> players[ps.player_id],
      goals |-> ps.goals,
      assists |-> ps.assists,
      GA |-> SqlAdd(ps.goals, ps.assists)]
     : ps \in {r \in PlayerJoin : r.match_id = match_id}}

sql_top_players_by_match(match_id, limit) ==
    LET rows == top_players_by_match_rows(match_id)
    IN Ranked(SortedOrders(rows, [p \in rows \X rows |-> GABefore(p[1], p[2])]), limit)

(***************************************************************************)
(* get_top_goalkeepers_all_matches                                         *)
(***************************************************************************)
\* a plausible slip: the WHERE clause left out
KeeperWhere_absent(ps) == TRUE

\* WHERE ps.stats->>'saves' IS NOT NULL AND (ps.stats->>'saves')::float > 0
KeeperWhere(ps) == ~IsNull(ps.saves) /\ SqlPositive(ps.saves)

\* a plausible slip: the HAVING clause left out
KeeperHaving_absent(shots) == TRUE

\* HAVING SUM(saves + goalsConceded) > 0
KeeperHaving(shots) == SqlPositive(shots)

\* a plausible slip: the tie-break on saves left out of the ORDER BY
KeeperBefore_no_saves_key(a, b) ==
    \/ DescBefore(a.save_pct, b.save_pct)
    \/ a.save_pct = b.save_pct /\ DescBefore(a.matches, b.matches)

\* ORDER BY save_pct DESC, saves DESC, matches DESC
KeeperBefore(a, b) ==
    \/ DescBefore(a.save_pct, b.save_pct)
    \/ /\ a.save_pct = b.save_pct
       /\ \/ DescBefore(a.saves, b.saves)
          \/ a.saves = b.saves /\ DescBefore(a.matches, b.matches)

\* one output row of a group g, kept or dropped by HAVING
KeeperGroup(p, g) ==
    LET saves == SqlSum(g, [r \in g |-> r.saves])
        shots == SqlSum(g, [r \in g |-> SqlAdd(r.saves, r.goalsConceded)])
    IN [having |-> KeeperHaving(shots),
        row |-> [name |-> p,
                 team_name |-> players[p],
                 matches |-> Cardinality({r.match_id : r \in g}),
                 saves |-> saves,
                 goals_conceded |-> SqlSum(g, [r \in g |-> r.goalsConceded]),
                 save_pct |-> RoundDiv2(saves, NullIfZero(shots))]]

top_goalkeepers_rows ==
    LET src == {ps \in PlayerJoin : KeeperWhere(ps)}
        groups == {KeeperGroup(p, {ps \in src : ps.player_id = p})
                   : p \in {ps.player_id : ps \in src}}
    IN {g.row : g \in {h \in groups : h.having}}

sql_top_goalkeepers_all_matches(limit) ==
    LET rows == top_goalkeepers_rows
    IN Ranked(SortedOrders(rows, [p \in rows \X rows |-> KeeperBefore(p[1], p[2])]), limit)

(***************************************************************************)
(* Fractions: an unrounded numeric quotient num / den, den > 0.            *)
(***************************************************************************)
RatEq(a, b) == a.num * b.den = b.num * a.den

RatGreater(a, b) == a.num * b.den > b.num * a.den

\* ORDER BY <quotient> DESC
RatDescBefore(a, b) == RatGreater(a, b)

\* FROM team_stats ts JOIN teams t ON ts.team_id = t.team_id
TeamJoin == {ts \in team_stats : ts.team_id \in teams}

(***************************************************************************)
(* get_most_aggressive_teams                                               *)
(***************************************************************************)
\* a plausible slip: the earlier version of the query, which ranks by the raw total
AggressionBefore_raw_total(a, b) ==
    DescBefore(a.total_aggression_score, b.total_aggression_score)

\* ORDER BY aggression_score_per_match DESC
AggressionBefore(a, b) ==
    DescBefore(a.aggression_score_per_match, b.aggression_score_per_match)

\* SUM(total_tackles) * 1 + SUM(fouls) * 2 + SUM(yellow_cards) * 3 + SUM(red_cards) * 5
AggressionTotal(tackles, fouls, yellow, red) ==
    tackles * 1 + fouls * 2 + yellow * 3 + red * 5

most_aggressive_rows ==
    LET src == TeamJoin
        Row(t) ==
            LET g == {ts \in src : ts.team_id = t}
                played == Cardinality({ts.match_id : ts \in g})
                tackles == SqlSum(g, [r \in g |-> r.total_tackles])
                fouls == SqlSum(g, [r \in g |-> r.fouls])
                yellow == SqlSum(g, [r \in g |-> r.yellow_cards])
                red == SqlSum(g, [r \in g |-> r.red_cards])
                total == AggressionTotal(tackles, fouls, yellow, red)
            IN [team_id |-> t,
                matches_played |-> played,
                total_tackles |-> tackles,
                fouls |-> fouls,
                yellow_cards |-> yellow,
                red_cards |-> red,
                total_aggression_score |-> total,
                aggression_score_per_match |-> RoundDiv2(total, NullIfZero(played))]
    IN {Row(t) : t \in {ts.team_id : ts \in src}}

sql_most_aggressive_teams(limit) ==
    LET rows == most_aggressive_rows
    IN Ranked(SortedOrders(rows, [p \in rows \X rows |-> AggressionBefore(p[1], p[2])]),
              limit)

(***************************************************************************)
(* get_best_defensive_teams.  Weights are kept doubled (2.5 is 5), so the  *)
(* raw score is carried as raw_score2 = 2 * raw_score.                     *)
(***************************************************************************)
\* a plausible slip: the join condition ts.team_id != opp.team_id left out
OpponentOf_any_row(ts, opp) == ts.match_id = opp.match_id

\* JOIN team_stats opp ON ts.match_id = opp.match_id AND ts.team_id != opp.team_id
OpponentOf(ts, opp) == ts.match_id = opp.match_id /\ ts.team_id # opp.team_id

\* CASE WHEN ts.team_id = m.home_team_id THEN m.away_score
\*      WHEN ts.team_id = m.away_team_id THEN m.home_score ELSE 0 END
ConcededIn(ts, m) ==
    IF ts.team_id = m.home_team_id THEN m.away_score
    ELSE IF ts.team_id = m.away_team_id THEN m.home_score
    ELSE 0

\* offsides * 2.0 + yellow * 1.0 + blocked * 1.5 + tackles * 1.0 + effective
\* tackles * 2.5 + interceptions * 1.5 + clearance * 1.0 + effective clearance * 2.5,
\* doubled
DefensiveRaw2(off, yellow, blocked, tackles, etackles, inter, clear, eclear) ==
    off * 4 + yellow * 2 + blocked * 3 + tackles * 2 + etackles * 5
        + inter * 3 + clear * 2 + eclear * 5

DefensiveBefore(a, b) == RatDescBefore(a.defensive_score, b.defensive_score)

\* the joined rows <<ts, m, opp>>
DefensiveJoin ==
    UNION {{<<ts, m, opp>> : opp \in {o \in team_stats : OpponentOf(ts, o)}}
           : <<ts, m>> \in {j \in TeamJoin \X matches : j[1].match_id = j[2].id}}

best_defensive_rows ==
    LET src == DefensiveJoin
        Row(t) ==
            LET g == {j \in src : j[1].team_id = t}
                off == SqlSum(g, [j \in g |-> j[3].offsides])
                yellow == SqlSum(g, [j \in g |-> j[1].yellow_cards])
                blocked == SqlSum(g, [j \in g |-> j[1].blocked_shots])
                tackles == SqlSum(g, [j \in g |-> j[1].total_tackles])
                etackles == SqlSum(g, [j \in g |-> j[1].effective_tackles])
                inter == SqlSum(g, [j \in g |-> j[1].interceptions])
                clear == SqlSum(g, [j \in g |-> j[1].total_clearance])
                eclear == SqlSum(g, [j \in g |-> j[1].effective_clearance])
                conceded == SqlSum(g, [j \in g |-> ConcededIn(j[1], j[2])])
                raw2 == DefensiveRaw2(off, yellow, blocked, tackles, etackles, inter,
                                      clear, eclear)
            IN [team_id |-> t,
                total_yellow_cards |-> yellow,
                total_blocked_shots |-> blocked,
                total_tackles |-> tackles,
                total_effective_tackles |-> etackles,
                total_interceptions |-> inter,
                total_clearance |-> clear,
                total_effective_clearance |-> eclear,
                offsides_against |-> off,
                goals_conceded |-> conceded,
                raw_score2 |-> raw2,
                defensive_score |-> [num |-> raw2 - conceded * 4,
                                     den |-> 2 * (1 + conceded)]]
    IN {Row(t) : t \in {j[1].team_id : j \in src}}

\* PostgreSQL raises "division by zero" when a group's 1 + goals_conceded is 0
sql_best_defensive_teams(limit) ==
    LET rows == best_defensive_rows
    IN IF \E r \in rows : r.defensive_score.den = 0
       THEN {[status |-> "error", rows |-> <<>>]}
       ELSE Ranked(SortedOrders(rows, [p \in rows \X rows |->
                                               DefensiveBefore(p[1], p[2])]), limit)

(***************************************************************************)
(* get_best_attacking_teams.  Weights are kept doubled (0.5 is 1).         *)
(***************************************************************************)
\* CASE WHEN ts.team_id = m.home_team_id THEN m.home_score
\*      WHEN ts.team_id = m.away_team_id THEN m.away_score ELSE 0 END
ScoredIn(ts, m) ==
    IF ts.team_id = m.home_team_id THEN m.home_score
    ELSE IF ts.team_id = m.away_team_id THEN m.away_score
    ELSE 0

\* a plausible slip: >= for >, which counts a draw as a win
WonIn_or_drawn(ts, m) ==
    IF ts.team_id = m.home_team_id /\ m.home_score >= m.away_score THEN 1
    ELSE IF ts.team_id = m.away_team_id /\ m.away_score >= m.home_score THEN 1
    ELSE 0

\* CASE WHEN home AND home_score > away_score THEN 1
\*      WHEN away AND away_score > home_score THEN 1 ELSE 0 END
WonIn(ts, m) ==
    IF ts.team_id = m.home_team_id /\ m.home_score > m.away_score THEN 1
    ELSE IF ts.team_id = m.away_team_id /\ m.away_score > m.home_score THEN 1
    ELSE 0

\* a plausible slip: SUM in place of AVG
SqlAvg_summed(S, f) == [num |-> SqlSum(S, f), den |-> 1]

\* AVG(expr) over the rows S of a group (no NULL input here): sum / count
SqlAvg(S, f) == [num |-> SqlSum(S, f), den |-> Cardinality(S)]

\* shots * 1.5 + on target * 2.0 + crosses * 1.0 + accurate crosses * 2.0 + long
\* balls * 0.5 + accurate long balls * 1.0 + corners * 1.0 + goals * 4.0 + wins * 3.0,
\* doubled (the two averages are added by AttackingScore)
AttackingSums2(shots, target, crosses, acrosses, lballs, alballs, corners, goals, wins) ==
    shots * 3 + target * 4 + crosses * 2 + acrosses * 4 + lballs * 1
        + alballs * 2 + corners * 2 + goals * 8 + wins * 6

\* (sums + avg_possession * 0.5 + avg_pass_pct * 0.5) / COUNT(*), with
\* sums2 = 2 * sums: (sums2 / 2 + poss / 2 + pass / 2) / n
AttackingScore(sums2, poss, pass, n) ==
    [num |-> sums2 * poss.den * pass.den + poss.num * pass.den + pass.num * poss.den,
     den |-> 2 * poss.den * pass.den * n]

AttackingBefore(a, b) ==
    RatDescBefore(a.attacking_score_per_match, b.attacking_score_per_match)

\* a plausible slip: the join condition ON ts.match_id = m.id left out
AttackingJoin_every_match == TeamJoin \X matches

\* the joined rows <<ts, m>>
AttackingJoin == {j \in TeamJoin \X matches : j[1].match_id = j[2].id}

best_attacking_rows ==
    LET src == AttackingJoin
        Row(t) ==
            LET g == {j \in src : j[1].team_id = t}
                n == Cardinality(g)
                shots == SqlSum(g, [j \in g |-> j[1].total_shots])
                target == SqlSum(g, [j \in g |-> j[1].shots_on_target])
                crosses == SqlSum(g, [j \in g |-> j[1].total_crosses])
                acrosses == SqlSum(g, [j \in g |-> j[1].accurate_crosses])
                lballs == SqlSum(g, [j \in g |-> j[1].total_long_balls])
                alballs == SqlSum(g, [j \in g |-> j[1].accurate_long_balls])
                poss == SqlAvg(g, [j \in g |-> j[1].possession_pct])
                pass == SqlAvg(g, [j \in g |-> j[1].pass_pct])
                corners == SqlSum(g, [j \in g |-> j[1].corners])
                goals == SqlSum(g, [j \in g |-> ScoredIn(j[1], j[2])])
                wins == SqlSum(g, [j \in g |-> WonIn(j[1], j[2])])
            IN [team_id |-> t,
                matches_played |-> n,
                total_shots |-> shots,
                shots_on_target |-> target,
                total_crosses |-> crosses,
                accurate_crosses |-> acrosses,
                total_long_balls |-> lballs,
                accurate_long_balls |-> alballs,
                avg_possession |-> poss,
                avg_pass_pct |-> pass,
                won_corners |-> corners,
                goals_scored |-> goals,
                match_wins |-> wins,
                attacking_score_per_match |->
                    AttackingScore(AttackingSums2(shots, target, crosses, acrosses, lballs,
                                                  alballs, corners, goals, wins),
                                   poss, pass, n)]
    IN {Row(t) : t \in {j[1].team_id : j \in src}}

\* PostgreSQL raises "division by zero" when COUNT(*) is 0
sql_best_attacking_teams(limit) ==
    LET rows == best_attacking_rows
    IN IF \E r \in rows : r.attacking_score_per_match.den = 0
       THEN {[status |-> "error", rows |-> <<>>]}
       ELSE Ranked(SortedOrders(rows, [p \in rows \X rows |->
                                               AttackingBefore(p[1], p[2])]), limit)

(***************************************************************************)
(* The st.cache_data wrapper around a query function.                      *)
(***************************************************************************)
TTL_QUERY == 600

\* a plausible slip: a stored entry is served whatever its age
Fresh_whatever_age(c, key, ttl) == key \in DOMAIN c

\* a stored entry is served while it is younger than the time-to-live
Fresh(c, key, ttl) == key \in DOMAIN c /\ now < c[key].at + ttl

\* utils.db_connection(): psycopg2.connect raises OperationalError when the
\* server is unreachable or has no connection slot left
CanConnect == database = "up" \/ database = "failing"

HasSlot(n) == n < MaxConnections

\* pd.read_sql(query, conn, ...): the statement's outcomes, or DatabaseError when
\* the data source fails under the statement
RunQuery(outcomes) ==
    IF database = "failing"
    THEN {[status |-> "DatabaseError", rows |-> <<>>]}
    ELSE outcomes

\* a plausible slip: the wrapper stores whatever the call produced, a failure too
CacheWrite_any_outcome(c, key, out) == (key :> [value |-> out.rows, at |-> now]) @@ c

\* st.cache_data stores the value a call returns; a call that raises stores nothing
CacheWrite(c, key, out) ==
    IF out.status = "ok"
    THEN (key :> [value |-> out.rows, at |-> now]) @@ c
    ELSE c

\* "with db_connection() as conn:" ends the transaction on exit and does not
\* close conn (psycopg2).  The connection is closed when its last reference goes:
\* on a normal return that is the function's frame, released as it returns; when
\* the statement raises, the exception's traceback keeps the frame, and the
\* connection stays open until the exception is dropped
OpenAfter(n, out) == IF out.status = "ok" THEN n ELSE n + 1

\* st.cache_data keys an entry by the function and the values of its arguments
CacheKey(fn, args) == <<fn, args>>

\* One invocation of a cached query function from the store c with n connections
\* open: what it returns or raises, the store and the open connections after it.
\* connects, queries: connection attempts and statements of this invocation
Invoke(c, n, fn, args, ttl, outcomes) ==
    LET key == CacheKey(fn, args)
        Res(status, rows, connects, queries) ==
            [fn |-> fn, args |-> args, status |-> status, rows |-> rows,
             connects |-> connects, queries |-> queries]
    IN IF Fresh(c, key, ttl)
       THEN {[result |-> Res("ok", c[key].value, 0, 0), cache |-> c, connections |-> n]}
       ELSE IF ~(CanConnect /\ HasSlot(n))
       THEN {[result |-> Res("OperationalError", <<>>, 1, 0), cache |-> c,
              connections |-> n]}
       ELSE {[result |-> Res(out.status, out.rows, 1, 1),
              cache |-> CacheWrite(c, key, out),
              connections |-> OpenAfter(n, out)] : out \in RunQuery(outcomes)}

CachedCall(fn, args, ttl, outcomes) ==
    /\ \E r \in Invoke(cache, connections, fn, args, ttl, outcomes) :
         /\ result' = r.result
         /\ cache' = r.cache
         /\ connections' = r.connections
    /\ UNCHANGED <<matches, team_stats, player_stats, now, database, running,
                   last_update>>

get_top_players_all_matches(limit) ==
    CachedCall("get_top_players_all_matches", <<limit>>, TTL_QUERY,
               sql_top_players_all_matches(limit))

get_top_players_by_match(match_id, limit) ==
    CachedCall("get_top_players_by_match", <<match_id, limit>>, TTL_QUERY,
               sql_top_players_by_match(match_id, limit))

get_top_goalkeepers_all_matches(limit) ==
    CachedCall("get_top_goalkeepers_all_matches", <<limit>>, TTL_QUERY,
               sql_top_goalkeepers_all_matches(limit))

get_most_aggressive_teams(limit) ==
    CachedCall("get_most_aggressive_teams", <<limit>>, TTL_QUERY,
               sql_most_aggressive_teams(limit))

get_best_defensive_teams(limit) ==
    CachedCall("get_best_defensive_teams", <<limit>>, TTL_QUERY,
               sql_best_defensive_teams(limit))

get_best_attacking_teams(limit) ==
    CachedCall("get_best_attacking_teams", <<limit>>, TTL_QUERY,
               sql_best_attacking_teams(limit))

(***************************************************************************)
(* Data sets.                                                              *)
(***************************************************************************)
NoCall == [fn |-> "none", args |-> <<>>, status |-> "none", rows |-> <<>>,
           connects |-> 0, queries |-> 0]

\* the callers that may be inside a query function at the same time (Streamlit
\* runs every session's script in a thread of its own)
Callers == {1, 2}

NotRunning == [pc |-> "idle"]

\* the data source is up, nothing is open, nobody is inside a call
Quiet ==
    /\ database = "up"
    /\ connections = 0
    /\ running = [t \in Callers |-> NotRunning]
    /\ last_update = 0

\* <<player_id, match_id>>
PlayerSlots == PlayerIds \X MatchIds

\* the player_stats tables with at most MaxPlayerRows rows, one per (player,
\* match), each row's counters one of the profiles
PlayerTables(slots, profiles) ==
    LET keysets == {K \in SUBSET slots : Cardinality(K) <= MaxPlayerRows}
        fill == UNION {[K -> profiles] : K \in keysets}
    IN {{[player_id |-> k[1], match_id |-> k[2],
          goals |-> f[k].goals, assists |-> f[k].assists,
          saves |-> f[k].saves, goalsConceded |-> f[k].goalsConceded]
         : k \in DOMAIN f} : f \in fill}

OutfieldProfiles ==
    {[goals |-> 0, assists |-> 0, saves |-> NULL, goalsConceded |-> NULL],
     [goals |-> 1, assists |-> 0, saves |-> NULL, goalsConceded |-> NULL],
     [goals |-> 1, assists |-> 1, saves |-> NULL, goalsConceded |-> NULL]}

TwoProfiles ==
    {[goals |-> 0, assists |-> 0, saves |-> NULL, goalsConceded |-> NULL],
     [goals |-> 1, assists |-> 0, saves |-> NULL, goalsConceded |-> NULL]}

\* stats of a player_stats row: outfield players carry no keeper keys; a keeper's
\* blob may lack goalsConceded
KeeperProfiles ==
    {[goals |-> 0, assists |-> 0, saves |-> NULL, goalsConceded |-> NULL],
     [goals |-> 0, assists |-> 0, saves |-> 0, goalsConceded |-> 1],
     [goals |-> 0, assists |-> 0, saves |-> 1, goalsConceded |-> 0],
     [goals |-> 0, assists |-> 0, saves |-> 1, goalsConceded |-> 1],
     [goals |-> 0, assists |-> 0, saves |-> 2, goalsConceded |-> 2],
     [goals |-> 0, assists |-> 0, saves |-> 1, goalsConceded |-> NULL]}

\* counters of a team_stats row
TeamProfiles ==
    {[total_tackles |-> 1, fouls |-> 0, yellow_cards |-> 0, red_cards |-> 0,
      blocked_shots |-> 1, effective_tackles |-> 1, interceptions |-> 0,
      total_clearance |-> 2, effective_clearance |-> 1, offsides |-> 1,
      total_shots |-> 3, shots_on_target |-> 1, total_crosses |-> 2,
      accurate_crosses |-> 1, total_long_balls |-> 1, accurate_long_balls |-> 0,
      possession_pct |-> 60, pass_pct |-> 81, corners |-> 2],
     [total_tackles |-> 2, fouls |-> 1, yellow_cards |-> 1, red_cards |-> 1,
      blocked_shots |-> 0, effective_tackles |-> 2, interceptions |-> 1,
      total_clearance |-> 1, effective_clearance |-> 0, offsides |-> 2,
      total_shots |-> 1, shots_on_target |-> 1, total_crosses |-> 0,
      accurate_crosses |-> 0, total_long_balls |-> 2, accurate_long_balls |-> 1,
      possession_pct |-> 40, pass_pct |-> 70, corners |-> 0]}

\* <<home_team_id, away_team_id>>
Sides == {p \in TeamIds \X TeamIds : p[1] # p[2]}

\* final scores <<home_score, away_score>>: a draw, a home win, an away win
Scores == {<<0, 0>>, <<1, 0>>, <<0, 2>>}

\* the matches and team_stats tables for some of the matches ids: each match has
\* two different teams, a final score, a date (ids are given in date order) and
\* one team_stats row for either side
TeamTables(ids, sides, scores, profiles) ==
    LET fill == UNION {[K -> sides \X scores \X profiles \X profiles] : K \in SUBSET ids}
        row(t, m, c) == [team_id |-> t, match_id |-> m] @@ c
    IN {[matches |-> {[id |-> k,
                       home_team_id |-> f[k][1][1], away_team_id |-> f[k][1][2],
                       home_team |-> team_name[f[k][1][1]],
                       away_team |-> team_name[f[k][1][2]],
                       home_score |-> f[k][2][1], away_score |-> f[k][2][2],
                       date |-> k]
                      : k \in DOMAIN f},
         team_stats |-> {row(f[k][1][1], k, f[k][3]) : k \in DOMAIN f}
                          \cup {row(f[k][1][2], k, f[k][4]) : k \in DOMAIN f}]
        : f \in fill}

PositiveLimits == 1..MaxLimit

InitPlayers ==
    /\ matches = {}
    /\ team_stats = {}
    /\ player_stats \in PlayerTables(PlayerSlots, OutfieldProfiles)
    /\ cache = <<>>
    /\ now = 0
    /\ result = NoCall
    /\ Quiet

NextPlayers == \E limit \in PositiveLimits : get_top_players_all_matches(limit)

SpecPlayers == InitPlayers /\ [][NextPlayers]_vars

InitKeepers ==
    /\ matches = {}
    /\ team_stats = {}
    /\ player_stats \in PlayerTables(PlayerSlots, KeeperProfiles)
    /\ cache = <<>>
    /\ now = 0
    /\ result = NoCall
    /\ Quiet

NextKeepers == \E limit \in PositiveLimits : get_top_goalkeepers_all_matches(limit)

SpecKeepers == InitKeepers /\ [][NextKeepers]_vars

InitAggressive ==
    /\ \E d \in TeamTables({1, 2, 3}, {<<1, 2>>, <<2, 1>>, <<1, 3>>}, {<<1, 0>>}, TeamProfiles) :
         matches = d.matches /\ team_stats = d.team_stats
    /\ player_stats = {}
    /\ cache = <<>>
    /\ now = 0
    /\ result = NoCall
    /\ Quiet

NextAggressive == \E limit \in PositiveLimits : get_most_aggressive_teams(limit)

SpecAggressive == InitAggressive /\ [][NextAggressive]_vars

InitTeams ==
    /\ \E d \in TeamTables(MatchIds, Sides, Scores, TeamProfiles) :
         matches = d.matches /\ team_stats = d.team_stats
    /\ player_stats = {}
    /\ cache = <<>>
    /\ now = 0
    /\ result = NoCall
    /\ Quiet

NextDefensive == \E limit \in PositiveLimits : get_best_defensive_teams(limit)

SpecDefensive == InitTeams /\ [][NextDefensive]_vars

InitAttacking ==
    /\ \E d \in TeamTables(MatchIds, {<<1, 2>>, <<2, 1>>, <<3, 1>>}, Scores,
                           TeamProfiles) :
         matches = d.matches /\ team_stats = d.team_stats
    /\ player_stats = {}
    /\ cache = <<>>
    /\ now = 0
    /\ result = NoCall
    /\ Quiet

NextAttacking ==
    \/ \E limit \in PositiveLimits : get_best_attacking_teams(limit)
    \/ get_most_aggressive_teams(MaxLimit)

SpecAttacking == InitAttacking /\ [][NextAttacking]_vars

\* time passes: half a time-to-live at a step
Tick ==
    /\ now < MaxTicks * (TTL_QUERY \div 2)
    /\ now' = now + TTL_QUERY \div 2
    /\ UNCHANGED <<matches, team_stats, player_stats, cache, result, database,
                   connections, running, last_update>>

\* a few goalkeepers and one match, for the properties that span the operations
FewKeeperProfiles ==
    {[goals |-> 1, assists |-> 0, saves |-> 0, goalsConceded |-> 1],
     [goals |-> 0, assists |-> 1, saves |-> 1, goalsConceded |-> 1],
     [goals |-> 0, assists |-> 0, saves |-> 1, goalsConceded |-> NULL]}

InitScores ==
    /\ \E d \in TeamTables({1}, Sides, Scores, TeamProfiles) :
         matches = d.matches /\ team_stats = d.team_stats
    /\ player_stats \in PlayerTables({1, 2} \X {1}, FewKeeperProfiles)
    /\ cache = <<>>
    /\ now = 0
    /\ result = NoCall
    /\ Quiet

NextScores ==
    \/ get_top_goalkeepers_all_matches(MaxLimit)
    \/ get_most_aggressive_teams(MaxLimit)
    \/ get_best_defensive_teams(MaxLimit)
    \/ get_best_attacking_teams(MaxLimit)

SpecScores == InitScores /\ [][NextScores]_vars

\* limits that are not positive
NonPositiveLimits == {-1, 0}

InitLimits ==
    /\ \E d \in TeamTables({1}, {<<1, 2>>}, {<<1, 0>>}, TeamProfiles) :
         matches = d.matches /\ team_stats = d.team_stats
    /\ player_stats \in PlayerTables({1, 2} \X {1}, FewKeeperProfiles)
    /\ cache = <<>>
    /\ now = 0
    /\ result = NoCall
    /\ Quiet

NextLimits ==
    \E limit \in NonPositiveLimits :
        \/ get_top_players_by_match(1, limit)
        \/ get_top_players_all_matches(limit)
        \/ get_top_goalkeepers_all_matches(limit)
        \/ get_most_aggressive_teams(limit)
        \/ get_best_defensive_teams(limit)
        \/ get_best_attacking_teams(limit)

SpecLimits == InitLimits /\ [][NextLimits]_vars

InitRepeat ==
    /\ matches = {}
    /\ team_stats = {}
    /\ player_stats \in PlayerTables({1, 2} \X {1}, OutfieldProfiles)
    /\ cache = <<>>
    /\ now = 0
    /\ result = NoCall
    /\ Quiet

NextRepeat ==
    \/ \E limit \in PositiveLimits : get_top_players_all_matches(limit)
    \/ \E limit \in PositiveLimits : get_top_players_by_match(1, limit)
    \/ Tick

SpecRepeat == InitRepeat /\ [][NextRepeat]_vars

(***************************************************************************)
(* get_top_players_by_match called for matches with and without records.  *)
(***************************************************************************)
\* match ids asked for: a match that may have records and one that never has
AskedMatchIds == {1, 3}

NextByMatch ==
    \E match_id \in AskedMatchIds, limit \in PositiveLimits :
        get_top_players_by_match(match_id, limit)

\* every player may have a record of match 1, player 1 one of match 2 as
\* well; match 3 is always a match without player records
InitByMatch ==
    /\ matches = {}
    /\ team_stats = {}
    /\ player_stats \in PlayerTables((PlayerIds \X {1}) \cup {<<1, 2>>},
                                     OutfieldProfiles)
    /\ cache = <<>>
    /\ now = 0
    /\ result = NoCall
    /\ Quiet

SpecByMatch == InitByMatch /\ [][NextByMatch]_vars

(***************************************************************************)
(* get_team_overview_stats                                                 *)
(***************************************************************************)
\* AVG(expr) over a group that may be empty: the average of no row is NULL
SqlAvgOrNull(S, f) == IF S = {} THEN NULL ELSE SqlAvg(S, f)

\* FROM team_stats ts JOIN matches m ON ts.match_id = m.id WHERE ts.team_id = %s
OverviewJoin(team_id) ==
    {j \in team_stats \X matches : j[1].match_id = j[2].id /\ j[1].team_id = team_id}

\* aggregates without GROUP BY: exactly one output row, also over no input row
\* (COUNT(*) is 0 then, every SUM and AVG is NULL)
team_overview_row(team_id) ==
    LET g == OverviewJoin(team_id)
    IN [matches |-> Cardinality(g),
        wins |-> SqlSum(g, [j \in g |-> WonIn(j[1], j[2])]),
        goals_scored |-> SqlSum(g, [j \in g |-> ScoredIn(j[1], j[2])]),
        goals_conceded |-> SqlSum(g, [j \in g |-> ConcededIn(j[1], j[2])]),
        avg_possession |-> SqlAvgOrNull(g, [j \in g |-> j[1].possession_pct]),
        avg_pass_pct |-> SqlAvgOrNull(g, [j \in g |-> j[1].pass_pct]),
        avg_shots |-> SqlAvgOrNull(g, [j \in g |-> j[1].total_shots]),
        corners |-> SqlSum(g, [j \in g |-> j[1].corners])]

\* pd.read_sql(...).iloc[0].to_dict(): the one row, as a dict
sql_team_overview_stats(team_id) ==
    {[status |-> "ok", rows |-> team_overview_row(team_id)]}

get_team_overview_stats(team_id) ==
    CachedCall("get_team_overview_stats", <<team_id>>, TTL_QUERY,
               sql_team_overview_stats(team_id))

\* final scores with a win by one goal in which both sides scored
MoreScores == Scores \cup {<<2, 1>>}

\* team ids asked for: two teams of the teams table and one id that is in no table
AskedTeamIds == {1, 3, 4}

InitOverview ==
    /\ \E d \in TeamTables(MatchIds, {<<1, 2>>, <<2, 1>>, <<3, 1>>}, MoreScores,
                           {p \in TeamProfiles : p.fouls = 0}) :
         matches = d.matches /\ team_stats = d.team_stats
    /\ player_stats = {}
    /\ cache = <<>>
    /\ now = 0
    /\ result = NoCall
    /\ Quiet

NextOverview ==
    \/ get_best_defensive_teams(MaxLimit)
    \/ get_best_attacking_teams(MaxLimit)
    \/ \E team_id \in AskedTeamIds : get_team_overview_stats(team_id)

SpecOverview == InitOverview /\ [][NextOverview]_vars

(***************************************************************************)
(* get_matches, get_all_teams, get_team_stats                              *)
(***************************************************************************)
\* a plausible slip: get_matches decorated like the functions below it
TTL_MATCHES_like_the_rest == TTL_QUERY

TTL_MATCHES == 3600
TTL_TEAMS == 3600
MATCHES_LIMIT == 50

\* ORDER BY date DESC
DateBefore(a, b) == DescBefore(a.date, b.date)

\* SELECT id, home_team, away_team, home_score, away_score, date FROM matches
matches_rows ==
    {[id |-> m.id, home_team |-> m.home_team, away_team |-> m.away_team,
      home_score |-> m.home_score, away_score |-> m.away_score, date |-> m.date]
     : m \in matches}

sql_matches ==
    LET rows == matches_rows
    IN Ranked(SortedOrders(rows, [p \in rows \X rows |-> DateBefore(p[1], p[2])]),
              MATCHES_LIMIT)

get_matches == CachedCall("get_matches", <<>>, TTL_MATCHES, sql_matches)

\* SELECT team_id, team_name, logo FROM teams ORDER BY team_name (the names are
\* in the alphabetical order of the ids)
sql_all_teams ==
    LET rows == {[team_id |-> t, team_name |-> team_name[t]] : t \in teams}
    IN {[status |-> "ok", rows |-> s]
        : s \in SortedOrders(rows, [p \in rows \X rows |-> p[1].team_id < p[2].team_id])}

get_all_teams == CachedCall("get_all_teams", <<>>, TTL_TEAMS, sql_all_teams)

\* SELECT team_id, team_name, stats FROM team_stats JOIN teams USING(team_id)
\* WHERE match_id = %s, the stats blob expanded into columns; no ORDER BY
team_stats_rows(match_id) ==
    {[team_name |-> team_name[ts.team_id],
      possessionPct |-> ts.possession_pct, passPct |-> ts.pass_pct,
      totalShots |-> ts.total_shots, shotsOnTarget |-> ts.shots_on_target,
      foulsCommitted |-> ts.fouls, yellowCards |-> ts.yellow_cards,
      redCards |-> ts.red_cards]
     : ts \in {r \in TeamJoin : r.match_id = match_id}}

sql_team_stats(match_id) ==
    LET rows == team_stats_rows(match_id)
    IN {[status |-> "ok", rows |-> s]
        : s \in SortedOrders(rows, [p \in rows \X rows |-> FALSE])}

get_team_stats(match_id) ==
    CachedCall("get_team_stats", <<match_id>>, TTL_QUERY, sql_team_stats(match_id))

\* the statement behind a cached function, run on the tables as they are now
StatementOf(fn, args) ==
    CASE fn = "get_top_players_all_matches" -> sql_top_players_all_matches(args[1])
      [] fn = "get_top_players_by_match" -> sql_top_players_by_match(args[1], args[2])
      [] fn = "get_top_goalkeepers_all_matches" -> sql_top_goalkeepers_all_matches(args[1])
      [] fn = "get_most_aggressive_teams" -> sql_most_aggressive_teams(args[1])
      [] fn = "get_best_defensive_teams" -> sql_best_defensive_teams(args[1])
      [] fn = "get_best_attacking_teams" -> sql_best_attacking_teams(args[1])
      [] fn = "get_team_overview_stats" -> sql_team_overview_stats(args[1])
      [] fn = "get_matches" -> sql_matches
      [] fn = "get_all_teams" -> sql_all_teams
      [] fn = "get_team_stats" -> sql_team_stats(args[1])

(***************************************************************************)
(* The three team-scoped aggregations called on the same tables, complete  *)
(* (a team_stats row for either side of every match) or with one row not   *)
(* loaded.                                                                 *)
(***************************************************************************)
InitTotals ==
    /\ \E d \in TeamTables(MatchIds, {<<1, 2>>, <<2, 1>>, <<3, 1>>}, Scores,
                           {p \in TeamProfiles : p.fouls = 0}) :
         /\ matches = d.matches
         /\ \E missing \in {{}} \cup {{ts} : ts \in d.team_stats} :
              team_stats = d.team_stats \ missing
    /\ player_stats = {}
    /\ cache = <<>>
    /\ now = 0
    /\ result = NoCall
    /\ Quiet

NextTotals ==
    \/ get_best_defensive_teams(Cardinality(teams))
    \/ get_best_attacking_teams(Cardinality(teams))
    \/ \E team_id \in teams : get_team_overview_stats(team_id)

SpecTotals == InitTotals /\ [][NextTotals]_vars

(***************************************************************************)
(* render_match_stats_tab (src/ui.py; src/dashboard.py's tab1 is the same  *)
(* code): the match selector and what is fetched for the selection.        *)
(***************************************************************************)
TOP_PLAYERS_SHOWN == 5

\* matches_df['label']: home_team + ' ' + str(home_score) + ' - ' +
\* str(away_score) + ' ' + away_team
MatchLabel(m) ==
    m.home_team \o " " \o ToString(m.home_score) \o " - "
        \o ToString(m.away_score) \o " " \o m.away_team

\* selected_label = st.selectbox("Select a Match", matches_df['label']) with the
\* user on entry option; matches_df[matches_df['label'] == selected_label].iloc[0]
SelectedRow(matches_df, option) ==
    LET selected_label == MatchLabel(matches_df[option])
        hits == {i \in 1..Len(matches_df) : MatchLabel(matches_df[i]) = selected_label}
    IN matches_df[CHOOSE i \in hits : \A j \in hits : i <= j]

\* what a run of the tab leaves: the page, or the exception that ended the run
Rendered(option, status, options, header, stats, top_players, c, n) ==
    /\ result' = [fn |-> "render_match_stats_tab", args |-> <<option>>,
                  status |-> status, rows |-> top_players, options |-> options,
                  header |-> header, team_stats |-> stats,
                  connects |-> 0, queries |-> 0]
    /\ cache' = c
    /\ connections' = n

render_match_stats_tab(option) ==
    /\ \E r1 \in Invoke(cache, connections, "get_matches", <<>>, TTL_MATCHES, sql_matches) :
         LET matches_df == r1.result.rows
         IN IF r1.result.status # "ok"
            THEN Rendered(option, r1.result.status, <<>>, NoCall, <<>>, <<>>,
                          r1.cache, r1.connections)
            ELSE IF matches_df = <<>>
            \* no option to select: the filter is empty and .iloc[0] raises
            THEN Rendered(option, "IndexError", matches_df, NoCall, <<>>, <<>>,
                          r1.cache, r1.connections)
            ELSE /\ option \in 1..Len(matches_df)
                 /\ LET selected_match == SelectedRow(matches_df, option)
                    IN \E r2 \in Invoke(r1.cache, r1.connections, "get_team_stats",
                                        <<selected_match.id>>, TTL_QUERY,
                                        sql_team_stats(selected_match.id)) :
                         IF r2.result.status # "ok"
                         THEN Rendered(option, r2.result.status, matches_df,
                                       selected_match, <<>>, <<>>, r2.cache,
                                       r2.connections)
                         ELSE \E r3 \in Invoke(r2.cache, r2.connections,
                                               "get_top_players_by_match",
                                               <<selected_match.id, TOP_PLAYERS_SHOWN>>,
                                               TTL_QUERY,
                                               sql_top_players_by_match(
                                                   selected_match.id, TOP_PLAYERS_SHOWN)) :
                                Rendered(option, r3.result.status, matches_df,
                                         selected_match, r2.result.rows,
                                         r3.result.rows, r3.cache, r3.connections)
    /\ UNCHANGED <<matches, team_stats, player_stats, now, database, running,
                   last_update>>

InitRender ==
    /\ \E d \in TeamTables(MatchIds, {<<1, 2>>, <<2, 1>>}, {<<1, 0>>, <<0, 0>>},
                           {p \in TeamProfiles : p.fouls = 0}) :
         matches = d.matches /\ team_stats = d.team_stats
    /\ player_stats \in PlayerTables({1} \X MatchIds, TwoProfiles)
    /\ cache = <<>>
    /\ now = 0
    /\ result = NoCall
    /\ Quiet

NextRender ==
    \/ \E option \in 1..Cardinality(MatchIds) : render_match_stats_tab(option)
    \/ Tick

SpecRender == InitRender /\ [][NextRender]_vars

(***************************************************************************)
(* The cached functions called again and again while time passes.          *)
(***************************************************************************)
\* time passes: the rest of an hour
LongWait ==
    /\ now = MaxTicks * (TTL_QUERY \div 2)
    /\ now' = now + (TTL_MATCHES - TTL_QUERY)
    /\ UNCHANGED <<matches, team_stats, player_stats, cache, result, database,
                   connections, running, last_update>>

InitCache ==
    /\ \E d \in TeamTables(MatchIds, {<<1, 2>>}, {<<1, 0>>},
                           {p \in TeamProfiles : p.fouls = 0}) :
         matches = d.matches /\ team_stats = d.team_stats
    /\ player_stats \in PlayerTables({1} \X MatchIds, TwoProfiles)
    /\ cache = <<>>
    /\ now = 0
    /\ result = NoCall
    /\ Quiet

NextCache ==
    \/ get_matches
    \/ get_all_teams
    \/ \E match_id \in MatchIds : get_top_players_by_match(match_id, MaxLimit)
    \/ Tick
    \/ LongWait

SpecCache == InitCache /\ [][NextCache]_vars

(***************************************************************************)
(* The tables change under the dashboard ("the db only updates once per    *)
(* day"); the cached functions are called before and after.                *)
(***************************************************************************)
StalePlayerTables == PlayerTables({1, 2} \X {1}, TwoProfiles)

\* the upstream loader rewrites player_stats
UpdatePlayerStats ==
    /\ \E t \in StalePlayerTables \ {player_stats} : player_stats' = t
    /\ last_update' = now
    /\ UNCHANGED <<matches, team_stats, cache, now, result, database, connections,
                   running>>

InitStale ==
    /\ matches = {}
    /\ team_stats = {}
    /\ player_stats \in StalePlayerTables
    /\ cache = <<>>
    /\ now = 0
    /\ result = NoCall
    /\ Quiet

NextStale ==
    \/ get_top_players_all_matches(MaxLimit)
    \/ get_top_players_by_match(1, MaxLimit)
    \/ UpdatePlayerStats
    \/ Tick

SpecStale == InitStale /\ [][NextStale]_vars

(***************************************************************************)
(* Concurrent callers.  A call is the steps below; the callers' steps      *)
(* interleave.  st.cache_data looks the key up, and on a miss takes the    *)
(* key's compute lock, looks the key up again, calls the function, stores  *)
(* the value and releases the lock.  The function opens a connection of    *)
(* its own and runs its one statement on it.                               *)
(***************************************************************************)
InCall(t) == running[t].pc \notin {"idle", "done"}

\* caller t holds the compute lock of key
Holds(t, key) ==
    /\ running[t].pc \in {"computing", "connected", "queried", "storing"}
    /\ CacheKey(running[t].fn, running[t].args) = key

\* a plausible slip: no compute lock, every caller that missed computes
LockFree_unchecked(t, key) == TRUE

LockFree(t, key) == \A u \in Callers \ {t} : ~Holds(u, key)

Done(fn, args, status, rows, connects, queries) ==
    [pc |-> "done", fn |-> fn, args |-> args, status |-> status, rows |-> rows,
     connects |-> connects, queries |-> queries]

\* what the caller got, as the last result
Outcome(r) ==
    [fn |-> r.fn, args |-> r.args, status |-> r.status, rows |-> r.rows,
     connects |-> r.connects, queries |-> r.queries]

\* the call ends for caller t with record r
Finish(t, r) ==
    /\ running' = [running EXCEPT ![t] = r]
    /\ result' = Outcome(r)

\* caller t calls fn(args): the first look into the store
Enter(t, fn, args) ==
    /\ ~InCall(t)
    /\ IF Fresh(cache, CacheKey(fn, args), TTL_QUERY)
       THEN Finish(t, Done(fn, args, "ok", cache[CacheKey(fn, args)].value, 0, 0))
       ELSE /\ running' = [running EXCEPT ![t] = [pc |-> "waiting", fn |-> fn,
                                                  args |-> args]]
            /\ UNCHANGED result
    /\ UNCHANGED <<matches, team_stats, player_stats, cache, now, database, connections,
                   last_update>>

\* caller t gets the key's compute lock and looks into the store again
Acquire(t) ==
    LET r == running[t]
        key == CacheKey(r.fn, r.args)
    IN /\ r.pc = "waiting"
       /\ LockFree(t, key)
       /\ IF Fresh(cache, key, TTL_QUERY)
          THEN Finish(t, Done(r.fn, r.args, "ok", cache[key].value, 0, 0))
          ELSE /\ running' = [running EXCEPT ![t].pc = "computing"]
               /\ UNCHANGED result
       /\ UNCHANGED <<matches, team_stats, player_stats, cache, now, database,
                      connections, last_update>>

\* with db_connection() as conn: a connection of the caller's own, or the
\* failure to get one, which ends the call
Connect(t) ==
    LET r == running[t]
    IN /\ r.pc = "computing"
       /\ IF CanConnect /\ HasSlot(connections)
          THEN /\ connections' = connections + 1
               /\ running' = [running EXCEPT ![t].pc = "connected"]
               /\ UNCHANGED result
          ELSE /\ Finish(t, Done(r.fn, r.args, "OperationalError", <<>>, 1, 0))
               /\ UNCHANGED connections
       /\ UNCHANGED <<matches, team_stats, player_stats, cache, now, database,
                      last_update>>

\* pd.read_sql(query, conn, ...): the statement runs on the tables as they are
Query(t) ==
    LET r == running[t]
    IN /\ r.pc = "connected"
       /\ \E out \in RunQuery(StatementOf(r.fn, r.args)) :
            running' = [running EXCEPT ![t] = [pc |-> "queried", fn |-> r.fn,
                                               args |-> r.args, out |-> out]]
       /\ UNCHANGED <<matches, team_stats, player_stats, cache, now, result, database,
                      connections, last_update>>

\* the function returns or raises; a raise ends the call and releases the lock
FunctionEnds(t) ==
    LET r == running[t]
    IN /\ r.pc = "queried"
       /\ connections' = OpenAfter(connections - 1, r.out)
       /\ IF r.out.status = "ok"
          THEN /\ running' = [running EXCEPT ![t].pc = "storing"]
               /\ UNCHANGED result
          ELSE Finish(t, Done(r.fn, r.args, r.out.status, r.out.rows, 1, 1))
       /\ UNCHANGED <<matches, team_stats, player_stats, cache, now, database,
                      last_update>>

\* st.cache_data stores the value, releases the lock and returns the value
Store(t) ==
    LET r == running[t]
    IN /\ r.pc = "storing"
       /\ cache' = CacheWrite(cache, CacheKey(r.fn, r.args), r.out)
       /\ Finish(t, Done(r.fn, r.args, r.out.status, r.out.rows, 1, 1))
       /\ UNCHANGED <<matches, team_stats, player_stats, now, database, connections,
                      last_update>>

InitConcurrent ==
    /\ matches = {}
    /\ team_stats = {}
    /\ player_stats \in PlayerTables({1, 2} \X {1}, FewKeeperProfiles)
    /\ cache = <<>>
    /\ now = 0
    /\ result = NoCall
    /\ Quiet

NextConcurrent ==
    \E t \in Callers :
        \/ \E limit \in PositiveLimits :
             Enter(t, "get_top_goalkeepers_all_matches", <<limit>>)
        \/ Acquire(t)
        \/ Connect(t)
        \/ Query(t)
        \/ FunctionEnds(t)
        \/ Store(t)

SpecConcurrent == InitConcurrent /\ [][NextConcurrent]_vars

(***************************************************************************)
(* The data source fails and recovers under the dashboard.                 *)
(***************************************************************************)
DatabaseStates == {"up", "down", "failing"}

\* the server goes away, starts failing statements, or comes back
DataSourceChanges ==
    /\ \E d \in DatabaseStates \ {database} : database' = d
    /\ UNCHANGED <<matches, team_stats, player_stats, cache, now, result, connections,
                   running, last_update>>

\* the exception of a failed call is dropped by whoever caught it: its traceback
\* goes, and with it the last reference to the connection, which closes
DropException ==
    /\ connections > 0
    /\ \A t \in Callers : ~InCall(t)
    /\ connections' = connections - 1
    /\ UNCHANGED <<matches, team_stats, player_stats, cache, now, result, database,
                   running, last_update>>

InitFailure ==
    /\ \E d \in TeamTables({1}, {<<1, 2>>}, {<<1, 0>>}, TeamProfiles) :
         matches = d.matches /\ team_stats = d.team_stats
    /\ player_stats = {}
    /\ cache = <<>>
    /\ now = 0
    /\ result = NoCall
    /\ Quiet

NextFailure ==
    \/ \E limit \in PositiveLimits : get_most_aggressive_teams(limit)
    \/ DataSourceChanges
    \/ DropException
    \/ Tick

SpecFailure == InitFailure /\ [][NextFailure]_vars

(***************************************************************************)
(* What the tables say, computed directly from the rows (for the           *)
(* properties below).                                                      *)
(***************************************************************************)
IsCall(fn) == result.fn = fn /\ result.status = "ok"

Returned(i) == result.rows[i]

RowIndexes == 1..Len(result.rows)

StatsOfPlayer(p) == {ps \in player_stats : ps.player_id = p}

PlayersWithStats == {ps.player_id : ps \in player_stats}

\* an absent counter counts as nothing
OrZero(x) == IF IsNull(x) THEN 0 ELSE x

TotalGoals(p) == SumOver(StatsOfPlayer(p), [r \in StatsOfPlayer(p) |-> r.goals])

TotalAssists(p) == SumOver(StatsOfPlayer(p), [r \in StatsOfPlayer(p) |-> r.assists])

TotalSaves(p) == SumOver(StatsOfPlayer(p), [r \in StatsOfPlayer(p) |-> OrZero(r.saves)])

TotalConceded(p) ==
    SumOver(StatsOfPlayer(p), [r \in StatsOfPlayer(p) |-> OrZero(r.goalsConceded)])

(***************************************************************************)
(* C3.  get_top_players_all_matches(limit), limit > 0: min(limit, number   *)
(* of players with records) rows, one per player, each carrying that       *)
(* player's summed goals, assists and G/A, in non-increasing order of G/A, *)
(* and no player left out has a G/A strictly greater than a player         *)
(* returned.                                                               *)
(***************************************************************************)
C3_TopPlayersOverallIsSortedPrefix ==
    (IsCall("get_top_players_all_matches") /\ result.args[1] > 0) =>
        LET shown == {Returned(i).name : i \in RowIndexes}
        IN /\ Len(result.rows) = Min(result.args[1], Cardinality(PlayersWithStats))
           /\ \A i \in RowIndexes :
                /\ Returned(i).name \in PlayersWithStats
                /\ Returned(i).goals = TotalGoals(Returned(i).name)
                /\ Returned(i).assists = TotalAssists(Returned(i).name)
                /\ Returned(i).GA = TotalGoals(Returned(i).name)
                                      + TotalAssists(Returned(i).name)
           /\ \A i, j \in RowIndexes : i < j =>
                /\ Returned(i).name # Returned(j).name
                /\ Returned(i).GA >= Returned(j).GA
           /\ \A p \in PlayersWithStats \ shown : \A i \in RowIndexes :
                TotalGoals(p) + TotalAssists(p) <= Returned(i).GA

\* a call that cut the list: the player returned has two match records summed,
\* and a player with a smaller, non-zero G/A was left out
C3_Witness ==
    /\ IsCall("get_top_players_all_matches")
    /\ result.args[1] = 1
    /\ Len(result.rows) = 1
    /\ Cardinality(StatsOfPlayer(Returned(1).name)) = 2
    /\ Returned(1).GA = 3
    /\ \E p \in PlayersWithStats :
         p # Returned(1).name /\ TotalGoals(p) + TotalAssists(p) = 2

(***************************************************************************)
(* C4.  No goalkeeper whose saves total 0 over all matches, and no player  *)
(* without a 'saves' entry, is in the output of                            *)
(* get_top_goalkeepers_all_matches, whatever the goals conceded.           *)
(***************************************************************************)
C4_NoKeeperWithoutSaves ==
    IsCall("get_top_goalkeepers_all_matches") =>
        \A i \in RowIndexes :
            /\ TotalSaves(Returned(i).name) > 0
            /\ \E ps \in StatsOfPlayer(Returned(i).name) : ~IsNull(ps.saves)

\* the table holds a keeper with 0 saves and goals conceded, and a player with
\* no 'saves' entry; the call had room for them and returned only the third
C4_Witness ==
    /\ IsCall("get_top_goalkeepers_all_matches")
    /\ Len(result.rows) = 1
    /\ result.args[1] = 2
    /\ \E p \in PlayersWithStats :
         /\ \A ps \in StatsOfPlayer(p) : ~IsNull(ps.saves)
         /\ TotalSaves(p) = 0
         /\ TotalConceded(p) > 0
    /\ \E p \in PlayersWithStats : \A ps \in StatsOfPlayer(p) : IsNull(ps.saves)

(***************************************************************************)
(* C5.  The goalkeeper rows are in non-increasing order of save_pct; rows  *)
(* with the same save_pct are in non-increasing order of saves, and rows   *)
(* that also have the same saves in non-increasing order of matches.       *)
(***************************************************************************)
C5_KeeperOrder ==
    IsCall("get_top_goalkeepers_all_matches") =>
        \A i, j \in RowIndexes : i < j =>
            /\ Returned(i).save_pct >= Returned(j).save_pct
            /\ Returned(i).save_pct = Returned(j).save_pct =>
                 /\ Returned(i).saves >= Returned(j).saves
                 /\ Returned(i).saves = Returned(j).saves =>
                      Returned(i).matches >= Returned(j).matches

\* two keepers with the same save_pct and the same saves, told apart by matches
C5_Witness ==
    /\ IsCall("get_top_goalkeepers_all_matches")
    /\ Len(result.rows) = 2
    /\ Returned(1).save_pct = Returned(2).save_pct
    /\ Returned(1).saves = Returned(2).saves
    /\ Returned(1).matches > Returned(2).matches

(***************************************************************************)
(* C6.  For every goalkeeper returned, save_pct is total saves / (total    *)
(* saves + total goals conceded) rounded to 2 decimals, the totals and the *)
(* match count taken over all of the goalkeeper's match records (those     *)
(* without a save or without a goals-conceded entry included), so that     *)
(* 0 < save_pct <= 1.                                                      *)
(***************************************************************************)
C6_SavePctOverAllRecords ==
    IsCall("get_top_goalkeepers_all_matches") =>
        \A i \in RowIndexes :
            LET p == Returned(i).name
            IN /\ Returned(i).matches = Cardinality({ps.match_id : ps \in StatsOfPlayer(p)})
               /\ Returned(i).save_pct =
                     RoundDiv2(TotalSaves(p), TotalSaves(p) + TotalConceded(p))
               /\ 0 < Returned(i).save_pct
               /\ Returned(i).save_pct <= 100

StatsOfTeam(t) == {ts \in team_stats : ts.team_id = t}

\* the team's total of counter c over its team_stats rows
TeamTotal(t, c) == SumOver(StatsOfTeam(t), [r \in StatsOfTeam(t) |-> r[c]])

DistinctMatches(t) == Cardinality({ts.match_id : ts \in StatsOfTeam(t)})

MatchOf(ts) == CHOOSE m \in matches : m.id = ts.match_id

OpponentRow(ts) ==
    CHOOSE o \in team_stats : o.match_id = ts.match_id /\ o.team_id # ts.team_id

OffsidesAgainst(t) ==
    SumOver(StatsOfTeam(t), [r \in StatsOfTeam(t) |-> OpponentRow(r).offsides])

IsHome(ts) == MatchOf(ts).home_team_id = ts.team_id

GoalsConceded(t) ==
    SumOver(StatsOfTeam(t),
            [r \in StatsOfTeam(t) |->
                IF IsHome(r) THEN MatchOf(r).away_score ELSE MatchOf(r).home_score])

GoalsScored(t) ==
    SumOver(StatsOfTeam(t),
            [r \in StatsOfTeam(t) |->
                IF IsHome(r) THEN MatchOf(r).home_score ELSE MatchOf(r).away_score])

Wins(t) ==
    Cardinality({r \in StatsOfTeam(t) :
        IF IsHome(r) THEN MatchOf(r).home_score > MatchOf(r).away_score
        ELSE MatchOf(r).away_score > MatchOf(r).home_score})

\* tackles * 1 + fouls * 2 + yellow cards * 3 + red cards * 5 over the team's matches
AggressionOf(t) ==
    TeamTotal(t, "total_tackles") + 2 * TeamTotal(t, "fouls")
        + 3 * TeamTotal(t, "yellow_cards") + 5 * TeamTotal(t, "red_cards")

\* v is hundredths of x / n rounded to two decimals, halves away from zero (x >= 0)
IsRounded2(v, x, n) == 2 * v * n <= 200 * x + n /\ 200 * x + n < 2 * v * n + 2 * n

C9_DefensiveScore ==
    /\ RatEq([num |-> DefensiveRaw2(3, 2, 0, 20, 10, 5, 8, 4) - 1 * 4, den |-> 2 * (1 + 1)],
             [num |-> 3825, den |-> 100])
    /\ IsCall("get_best_defensive_teams") =>
        /\ \A i \in RowIndexes :
             LET t == Returned(i).team_id
                 twice == 4 * OffsidesAgainst(t) + 2 * TeamTotal(t, "yellow_cards")
                            + 3 * TeamTotal(t, "blocked_shots")
                            + 2 * TeamTotal(t, "total_tackles")
                            + 5 * TeamTotal(t, "effective_tackles")
                            + 3 * TeamTotal(t, "interceptions")
                            + 2 * TeamTotal(t, "total_clearance")
                            + 5 * TeamTotal(t, "effective_clearance")
                            - 4 * GoalsConceded(t)
             IN /\ Returned(i).offsides_against = OffsidesAgainst(t)
                /\ Returned(i).goals_conceded = GoalsConceded(t)
                /\ Returned(i).defensive_score.den > 0
                /\ RatEq(Returned(i).defensive_score,
                         [num |-> twice, den |-> 2 * (1 + GoalsConceded(t))])
        /\ \A i, j \in RowIndexes : i < j =>
             ~RatGreater(Returned(j).defensive_score, Returned(i).defensive_score)

\* two teams with two matches each, goals conceded, and different scores
C9_Witness ==
    /\ IsCall("get_best_defensive_teams")
    /\ Len(result.rows) = 2
    /\ DistinctMatches(Returned(1).team_id) = 2
    /\ DistinctMatches(Returned(2).team_id) = 2
    /\ Returned(2).goals_conceded > 0
    /\ Returned(1).offsides_against = 3
    /\ RatGreater(Returned(1).defensive_score, Returned(2).defensive_score)

(***************************************************************************)
(* C10.  For every team returned by get_best_attacking_teams,              *)
(* attacking_score_per_match = (shots*1.5 + shots_on_target*2.0 +          *)
(* crosses*1.0 + accurate_crosses*2.0 + long_balls*0.5 +                   *)
(* accurate_long_balls*1.0 + corners*1.0 + avg_possession*0.5 +            *)
(* avg_pass_pct*0.5 + goals_scored*4.0 + wins*3.0) / the number of         *)
(* distinct matches of the team, possession and pass percentage averaged   *)
(* over those matches; get_most_aggressive_teams divides by the same       *)
(* number of distinct matches.                                             *)
(***************************************************************************)
C10_AttackingScore ==
    /\ IsCall("get_best_attacking_teams") =>
        \A i \in RowIndexes :
            LET t == Returned(i).team_id
                n == DistinctMatches(t)
                twice == 3 * TeamTotal(t, "total_shots") + 4 * TeamTotal(t, "shots_on_target")
                           + 2 * TeamTotal(t, "total_crosses")
                           + 4 * TeamTotal(t, "accurate_crosses")
                           + 1 * TeamTotal(t, "total_long_balls")
                           + 2 * TeamTotal(t, "accurate_long_balls")
                           + 2 * TeamTotal(t, "corners")
                           + 8 * GoalsScored(t) + 6 * Wins(t)
                poss == TeamTotal(t, "possession_pct")
                pass == TeamTotal(t, "pass_pct")
            IN /\ Returned(i).matches_played = n
               /\ RatEq(Returned(i).avg_possession, [num |-> poss, den |-> n])
               /\ RatEq(Returned(i).avg_pass_pct, [num |-> pass, den |-> n])
               /\ Returned(i).attacking_score_per_match.den > 0
               \* (twice / 2 + (poss / n) / 2 + (pass / n) / 2) / n
               /\ RatEq(Returned(i).attacking_score_per_match,
                        [num |-> twice * n + poss + pass, den |-> 2 * n * n])
    /\ IsCall("get_most_aggressive_teams") =>
        \A i \in RowIndexes :
            Returned(i).matches_played = DistinctMatches(Returned(i).team_id)

\* a team with two matches, one of them won, whose two possession values differ
C10_Witness ==
    /\ IsCall("get_best_attacking_teams")
    /\ \E i \in RowIndexes :
         /\ Returned(i).matches_played = 2
         /\ Returned(i).match_wins = 1
         /\ Returned(i).goals_scored = 2
         /\ Returned(i).avg_possession.num = 100

RankingOps ==
    {"get_top_players_by_match", "get_top_players_all_matches",
     "get_top_goalkeepers_all_matches", "get_most_aggressive_teams",
     "get_best_defensive_teams", "get_best_attacking_teams"}

\* the limit argument of the last call (the last argument)
LimitArg == result.args[Len(result.args)]

(***************************************************************************)
(* C1.  A ranking operation called with limit = 0 or a negative limit      *)
(* returns an empty sequence: it raises no error and returns no row.       *)
(***************************************************************************)
C1_NonPositiveLimitIsEmpty ==
    (result.fn \in RankingOps /\ LimitArg <= 0) =>
        result.status = "ok" /\ result.rows = <<>>

(***************************************************************************)
(* C2.  A ranking operation called twice in a row with the same arguments  *)
(* on unchanged tables returns the same rows in the same order both times. *)
(***************************************************************************)
C2_RepeatedCallSameOutput ==
    [][(/\ result.fn \in RankingOps
        /\ result'.fn = result.fn
        /\ result'.args = result.args
        /\ result.status = "ok"
        /\ result'.status = "ok"
        /\ <<matches, team_stats, player_stats>>' = <<matches, team_stats, player_stats>>)
       => result'.rows = result.rows]_vars

(***************************************************************************)
(* C7.  No ranking operation divides by zero or returns a row whose score  *)
(* is undefined: every returned save_pct, aggression_score_per_match,      *)
(* defensive_score and attacking_score_per_match is a number, the          *)
(* defensive denominator 1 + goals_conceded is at least 1 and the match    *)
(* counts that divide are at least 1.                                      *)
(***************************************************************************)
C7_ScoresAreDefined ==
    (result.fn \in RankingOps /\ LimitArg >= 0) =>
        /\ result.status = "ok"
        /\ result.fn = "get_top_goalkeepers_all_matches" =>
             \A i \in RowIndexes :
                 ~IsNull(Returned(i).save_pct) /\ Returned(i).save_pct >= 0
        /\ result.fn = "get_most_aggressive_teams" =>
             \A i \in RowIndexes :
                 /\ Returned(i).matches_played >= 1
                 /\ ~IsNull(Returned(i).aggression_score_per_match)
                 /\ Returned(i).aggression_score_per_match >= 0
        /\ result.fn = "get_best_defensive_teams" =>
             \A i \in RowIndexes :
                 /\ ~IsNull(Returned(i).goals_conceded)
                 /\ Returned(i).defensive_score.den = 2 * (1 + Returned(i).goals_conceded)
                 /\ Returned(i).defensive_score.den >= 2
        /\ result.fn = "get_best_attacking_teams" =>
             \A i \in RowIndexes :
                 /\ Returned(i).matches_played >= 1
                 /\ Returned(i).attacking_score_per_match.den
                      = 2 * Returned(i).matches_played * Returned(i).matches_played

\* the goalkeeper query ran on a table holding a keeper whose saves + goals
\* conceded is undefined (saves, no goalsConceded entry) and returned another
\* keeper; a team that conceded nothing is in the tables, too
C7_Witness ==
    /\ IsCall("get_top_goalkeepers_all_matches")
    /\ Len(result.rows) = 1
    /\ \E p \in PlayersWithStats \ {Returned(1).name} :
         \A ps \in StatsOfPlayer(p) : ps.saves > 0 /\ IsNull(ps.goalsConceded)
    /\ \E ts \in team_stats : GoalsConceded(ts.team_id) = 0

(***************************************************************************)
(* C11.  In get_best_defensive_teams, get_best_attacking_teams and         *)
(* get_team_overview_stats, goals scored is the sum over the team's        *)
(* matches of home_score where the team is the home side and away_score    *)
(* where it is the away side, goals conceded the sum of the other side's   *)
(* score, and wins the number of the team's matches in which its own score *)
(* is strictly greater than the opponent's; home or away is decided match  *)
(* by match.                                                               *)
(***************************************************************************)
C11_GoalsAndWinsPerMatch ==
    /\ IsCall("get_best_defensive_teams") =>
         \A i \in RowIndexes :
             Returned(i).goals_conceded = GoalsConceded(Returned(i).team_id)
    /\ IsCall("get_best_attacking_teams") =>
         \A i \in RowIndexes :
             /\ Returned(i).goals_scored = GoalsScored(Returned(i).team_id)
             /\ Returned(i).match_wins = Wins(Returned(i).team_id)
    /\ (IsCall("get_team_overview_stats") /\ StatsOfTeam(result.args[1]) # {}) =>
         /\ result.rows.goals_scored = GoalsScored(result.args[1])
         /\ result.rows.goals_conceded = GoalsConceded(result.args[1])
         /\ result.rows.wins = Wins(result.args[1])

\* the overview of a team that won 2-1 at home and lost 0-1 away
C11_Witness ==
    /\ IsCall("get_team_overview_stats")
    /\ result.rows.matches = 2
    /\ result.rows.wins = 1
    /\ result.rows.goals_scored = 2
    /\ result.rows.goals_conceded = 2
    /\ \E m \in matches : m.home_team_id = result.args[1] /\ m.home_score = 2
    /\ \E m \in matches : m.away_team_id = result.args[1] /\ m.home_score = 1

(***************************************************************************)
(* C12.  get_team_overview_stats(team_id) fails with a NotFound error when *)
(* team_id is unknown (it is not in teams, or no team_stats row carries    *)
(* it); it returns no record for such a team_id.                           *)
(***************************************************************************)
C12_UnknownTeamIsNotFound ==
    (/\ result.fn = "get_team_overview_stats"
     /\ \/ result.args[1] \notin teams
        \/ StatsOfTeam(result.args[1]) = {})
    => result.status = "NotFound"

\* what a first-ever call fn(args) could return on the tables as they are now
FirstEver(fn, args) == {o.rows : o \in {x \in StatementOf(fn, args) : x.status = "ok"}}

\* the time-to-live the functions are said to have
ClaimedTtl(fn) == IF fn \in {"get_matches", "get_all_teams"} THEN 3600 ELSE 600

\* this step is a call that returned
CallReturned ==
    /\ result' # result \/ cache' # cache
    /\ result'.status = "ok"

(***************************************************************************)
(* C13 as stated.  A call returns what a first-ever call with the same     *)
(* arguments on the current tables would return, whatever was called       *)
(* before and however the tables changed before.                           *)
(***************************************************************************)
C13_ResultOfCurrentData ==
    [][CallReturned => result'.rows \in FirstEver(result'.fn, result'.args)]_vars

(***************************************************************************)
(* C13 as amended.  A call returns what a first-ever call on the current   *)
(* tables would return, or the result stored by an earlier call with the   *)
(* same function and arguments less than the function's time-to-live       *)
(* before (600 s; 3600 s for get_matches and get_all_teams); a stored      *)
(* result is never newer than the clock, and one stored after the tables   *)
(* last changed is what a first-ever call on the current tables would      *)
(* return.                                                                 *)
(***************************************************************************)
C13_CurrentOrStoredWithinTtl ==
    /\ [](\A key \in DOMAIN cache :
            /\ cache[key].at <= now
            /\ cache[key].at > last_update =>
                 cache[key].value \in FirstEver(key[1], key[2]))
    /\ [][CallReturned =>
            LET key == <<result'.fn, result'.args>>
            IN \/ result'.rows \in FirstEver(result'.fn, result'.args)
               \/ /\ key \in DOMAIN cache
                  /\ result'.rows = cache[key].value
                  /\ now < cache[key].at + ClaimedTtl(key[1])]_vars

\* a call answered from the store after the tables changed: no connection was
\* opened and the rows are not what the current tables give
C13_Witness ==
    /\ IsCall("get_top_players_all_matches")
    /\ result.connects = 0
    /\ result.rows \notin FirstEver(result.fn, result.args)
    /\ <<result.fn, result.args>> \in DOMAIN cache
    /\ cache[<<result.fn, result.args>>].at < last_update
    /\ now > last_update

Failures == {"OperationalError", "DatabaseError"}

(***************************************************************************)
(* C15.  When the data source fails (the connection cannot be opened or    *)
(* the statement raises), the call raises that failure: it is not turned   *)
(* into a result, no rows are returned, the invocation made one connection *)
(* attempt and at most one statement, nothing is stored for the call, and  *)
(* the next call with the same arguments goes to the data source again.    *)
(***************************************************************************)
C15_FailureSurfacedNotStored ==
    /\ [](/\ result.connects <= 1 /\ result.queries <= result.connects
          /\ result.status \in Failures =>
               /\ result.rows = <<>>
               /\ result.connects = 1
               /\ result.queries = IF result.status = "DatabaseError" THEN 1 ELSE 0)
    /\ [][result' # result =>
            LET key == <<result'.fn, result'.args>>
                fresh == Fresh(cache, key, TTL_QUERY)
            IN /\ (~fresh /\ database = "down") => result'.status = "OperationalError"
               /\ (~fresh /\ database = "failing") => result'.status \in Failures
               /\ result'.status \in Failures =>
                    /\ database # "up" \/ connections = MaxConnections
                    /\ cache' = cache
               /\ (/\ result.status \in Failures
                   /\ result.fn = result'.fn /\ result.args = result'.args)
                  => result'.connects = 1]_vars

\* the stored ranking has expired and the server is down: the call raised
\* instead of returning the old rows
C15_Witness ==
    /\ result.fn = "get_most_aggressive_teams"
    /\ result.status = "OperationalError"
    /\ database = "down"
    /\ <<result.fn, result.args>> \in DOMAIN cache
    /\ now >= cache[<<result.fn, result.args>>].at + TTL_QUERY
    /\ cache[<<result.fn, result.args>>].value # <<>>

(***************************************************************************)
(* C16.  Every query function caches its result per argument tuple.  A     *)
(* call whose function and arguments have a result stored less than the    *)
(* time-to-live ago (600 s; 3600 s for get_matches and get_all_teams)      *)
(* returns that result and opens no connection; a call never returns a     *)
(* result stored for other arguments; a call with nothing stored, or with  *)
(* a result stored a time-to-live ago or longer, connects to the database  *)
(* and stores what it returns under the current time.                      *)
(***************************************************************************)
C16_CachedPerArgumentsWithinTtl ==
    /\ [](\A key \in DOMAIN cache :
            /\ cache[key].at <= now
            /\ cache[key].value \in FirstEver(key[1], key[2]))
    /\ [][result' # result =>
            LET key == <<result'.fn, result'.args>>
                stored == key \in DOMAIN cache /\ now < cache[key].at + ClaimedTtl(key[1])
            IN /\ stored => result'.connects = 0 /\ result'.rows = cache[key].value
               /\ ~stored => /\ result'.connects = 1
                             /\ result'.status = "ok"
                             /\ cache'[key] = [value |-> result'.rows, at |-> now]
               /\ result'.rows \in FirstEver(result'.fn, result'.args)]_vars

\* get_matches answered from the store 3000 s after it was stored, when the
\* rankings of the two matches, which differ, were both stored as well
C16_Witness ==
    /\ IsCall("get_matches")
    /\ result.connects = 0
    /\ Len(result.rows) = 2
    /\ now >= cache[<<"get_matches", <<>>>>].at + 3000
    /\ <<"get_top_players_by_match", <<1, MaxLimit>>>> \in DOMAIN cache
    /\ <<"get_top_players_by_match", <<2, MaxLimit>>>> \in DOMAIN cache
    /\ cache[<<"get_top_players_by_match", <<1, MaxLimit>>>>].value
         # cache[<<"get_top_players_by_match", <<2, MaxLimit>>>>].value

(***************************************************************************)
(* C17.  get_top_players_by_match(match_id, limit), limit > 0: for a       *)
(* match_id without player_stats rows it returns an empty sequence and     *)
(* raises nothing; otherwise it returns min(limit, rows of the match)      *)
(* rows, each the goals, assists and goals + assists of one player_stats   *)
(* row of that match, no row twice, in non-increasing order of goals +     *)
(* assists.                                                                *)
(***************************************************************************)
C17_ByMatchEmptyOrSortedRowsOfTheMatch ==
    (result.fn = "get_top_players_by_match" /\ result.args[2] > 0) =>
        LET recs == {ps \in player_stats : ps.match_id = result.args[1]}
        IN /\ result.status = "ok"
           /\ recs = {} => result.rows = <<>>
           /\ Len(result.rows) = Min(result.args[2], Cardinality(recs))
           /\ \A i \in RowIndexes :
                \E ps \in recs :
                    /\ ps.player_id = Returned(i).name
                    /\ ps.goals = Returned(i).goals
                    /\ ps.assists = Returned(i).assists
                    /\ ps.goals + ps.assists = Returned(i).GA
           /\ \A i, j \in RowIndexes : i < j =>
                /\ Returned(i).name # Returned(j).name
                /\ Returned(i).GA >= Returned(j).GA

\* a match without records was asked for while another match has records of two
\* players: nothing came back, and nothing was raised
C17_Witness ==
    /\ IsCall("get_top_players_by_match")
    /\ result.rows = <<>>
    /\ result.connects = 1
    /\ Cardinality({ps \in player_stats : ps.match_id # result.args[1]}) >= 2
    /\ \E ps \in player_stats : ps.goals + ps.assists = 2

(***************************************************************************)
(* C18.  Every connection a query function opened through db_connection()  *)
(* is closed by the time the function returns or raises: whenever no       *)
(* caller is inside a query function, no connection is open.               *)
(***************************************************************************)
C18_NoConnectionLeftOpen ==
    (\A t \in Callers : ~InCall(t)) => connections = 0

(***************************************************************************)
(* C19.  In render_match_stats_tab, whichever entry of the match selector  *)
(* is selected, the header, the team stats and the top players shown are   *)
(* those of the match at that position of the list get_matches returned,   *)
(* also when two matches of the list have the same home team, away team    *)
(* and score.                                                              *)
(***************************************************************************)
C19_SelectedMatchIsShown ==
    IsCall("render_match_stats_tab") =>
        LET chosen == result.options[result.args[1]]
        IN /\ result.header.id = chosen.id
           /\ result.team_stats \in FirstEver("get_team_stats", <<chosen.id>>)
           /\ result.rows \in FirstEver("get_top_players_by_match",
                                        <<chosen.id, TOP_PLAYERS_SHOWN>>)

\* every match has a team_stats row for its home side and one for its away side,
\* and team_stats holds nothing else
TwoRowsPerMatch ==
    /\ \A m \in matches :
         \A t \in {m.home_team_id, m.away_team_id} :
             \E ts \in team_stats : ts.match_id = m.id /\ ts.team_id = t
    /\ \A ts \in team_stats :
         \E m \in matches :
             m.id = ts.match_id /\ ts.team_id \in {m.home_team_id, m.away_team_id}

\* the rows of team t in a returned ranking
RowsOfTeam(rows, t) == {i \in 1..Len(rows) : rows[i].team_id = t}

====
